---- MODULE Spec2Model ----
(***************************************************************************)
(* Model of roa_rendezvous_v31.py: the phase-intensity function, the       *)
(* interaction solver, the ROAPhaseAgent leg planner and the trial driver  *)
(* simulate_v31_final_completion.                                          *)
(*                                                                         *)
(* Numbers.  The program computes in float64.  The model computes exactly  *)
(* in fixed point: a position, a time or a radius x is the integer         *)
(* x * SCALE, a velocity v is the integer v * VS, a sine or cosine value w *)
(* is the integer w * IUnit.  A value returned by the solver is an exact   *)
(* fraction num/den of SCALE units, because the classical branch divides.  *)
(* sin and cos are not computed: a call draws their values from TrigVals,  *)
(* a sample of [-1, 1], except where the argument is exactly 0.            *)
(***************************************************************************)
EXTENDS Integers, Sequences, FiniteSets

\* trials, dist: the arguments of simulate_v31_final_completion; trial: the
\* number of finished trials; pc: the position in the function ("for",
\* "while", "done"); rng: the random stream; calls: for each agent of the
\* current trial, the number of engage_phase_drive calls made on it so far
\* (a history variable); the others are the program's own variables.
VARIABLES trials, dist, trial, meeting_times, agent_A, agent_B, global_t,
          met, hit, pc, result, rng, calls, args

vars == <<trials, dist, trial, meeting_times, agent_A, agent_B, global_t,
          met, hit, pc, result, rng, calls, args>>

\* ---------------------------------------------------------------- numbers
\* One unit of position/time is 1/SCALE = 5e-5, so that 1e-4 is 2 units.
SCALE == 20000
\* One unit of velocity is 1/VS.
VS == 4
\* One unit of a sine/cosine value is 1/IUnit.
IUnit == 2
\* while global_t < 1000.0
Horizon == 1000 * SCALE

\* bounds of the model: the number of trials, and the period of a seeded
\* stream of direction draws
MaxTrials == 2
PatLen == 3

Abs(x) == IF x < 0 THEN -x ELSE x
Min(a, b) == IF a <= b THEN a ELSE b
Max(a, b) == IF a >= b THEN a ELSE b

\* The greatest common divisor of a >= 0 and b > 0 (b is small: a difference
\* of velocities, or a number of trials).
GCD(a, b) ==
    CHOOSE g \in 1 .. b :
        /\ a % g = 0 /\ b % g = 0
        /\ \A k \in (g + 1) .. b : ~(a % k = 0 /\ b % k = 0)

\* The fraction n/d in lowest terms, for values n and d > 0.
Lowest(n, d) ==
    [some |-> TRUE, num |-> n \div GCD(Abs(n), d), den |-> d \div GCD(Abs(n), d)]

\* The fraction n/d (d # 0) in lowest terms with a positive denominator.
\* (The one-element sets make n and d values before they are used.)
Frac(n, d) ==
    CHOOSE f \in { Lowest(IF dd < 0 THEN -nn ELSE nn, Abs(dd)) :
                     nn \in {n}, dd \in {d} } : TRUE

\* Python's None as the solver returns it.
None == [some |-> FALSE, num |-> 0, den |-> 1]

\* global_t + hit
AddTime(t, h) == Frac(t * h.den + h.num, h.den)

\* Sum of a sequence of fractions, as a fraction.
RECURSIVE SumTimes(_)
SumTimes(s) ==
    IF s = <<>> THEN Frac(0, 1)
    ELSE CHOOSE f \in { Frac(Head(s).num * r.den + r.num * Head(s).den,
                             Head(s).den * r.den) :
                          r \in {SumTimes(Tail(s))} } : TRUE

\* np.mean(meeting_times) for a non-empty list
Mean(s) ==
    CHOOSE f \in { Frac(t.num, t.den * Len(s)) : t \in {SumTimes(s)} } : TRUE

\* abs(x) < 1e-9 for a SCALE-unit integer x: 1e-9 is below one unit.
BelowTol(x) == Abs(x) <= SCALE \div 1000000000

\* ------------------------------------------------ get_roa_phase_intensity
TrigVals == {-IUnit, 0, IUnit}

\* The values np.sin(t * gamma + cycle_idx) may take.
SinSamples(t, cycle_idx) ==
    IF t = 0 /\ cycle_idx = 0 THEN {0} ELSE TrigVals

\* The values np.cos(t * cycle_idx / gamma) may take.
CosSamples(t, cycle_idx) ==
    IF t = 0 \/ cycle_idx = 0 THEN {IUnit} ELSE TrigVals

\* Mutant: the wave is returned without abs().
SignedIntensity(s, c) == s + c \div 2

\* wave = sin + 0.5 * cos; return abs(wave).  In IUnit units.
get_roa_phase_intensity(s, c) == Abs(s + c \div 2)

\* The intensities one call of get_roa_phase_intensity(t, cycle_idx) may return.
Intensities(t, cycle_idx) ==
    { get_roa_phase_intensity(s, c) :
        s \in SinSamples(t, cycle_idx), c \in CosSamples(t, cycle_idx) }

\* ----------------------------------------- solve_roa_phase_locked_physics
\* Mutant: the shortcut needs a negative distance, so it never fires.
CoincidentNever(pA, pB) == Abs(pA - pB) < 0

\* rel_pos < 1e-4
Coincident(pA, pB) == Abs(pA - pB) < SCALE \div 10000

\* rel_pos < effective_radius, with field_strength = (iA + iB)/2 + 0.5 and
\* effective_radius = current_radius * field_strength * 2.5, both sides
\* multiplied by 4 * IUnit.
FieldTouch(pA, pB, intensity_A, intensity_B, current_radius) ==
    4 * IUnit * Abs(pA - pB)
        < 5 * current_radius * (intensity_A + intensity_B + IUnit)

\* Mutant: the sign of the quotient is lost.
CrossingNoMinus(pA, vA, pB, vB) == Frac((pA - pB) * VS, vA - vB)

\* dt = -(pA - pB) / rel_vel, in SCALE units
Crossing(pA, vA, pB, vB) == Frac(-(pA - pB) * VS, vA - vB)

\* Mutant: the lower bound of the range check is dropped.
InLegNoLower(dt, duration) == dt.num <= duration * dt.den

\* Mutant: the upper bound of the range check is strict.
InLegStrict(dt, duration) == 0 <= dt.num /\ dt.num < duration * dt.den

\* 0 <= dt <= duration
InLeg(dt, duration) == 0 <= dt.num /\ dt.num <= duration * dt.den

solve_roa_phase_locked_physics(t_now, duration, pA, vA, pB, vB, intensity_A, intensity_B, current_radius) ==
    IF Coincident(pA, pB) THEN Frac(0, 1)
    ELSE IF FieldTouch(pA, pB, intensity_A, intensity_B, current_radius)
    THEN Frac(SCALE \div 1000, 1)
    ELSE IF Abs(vA - vB) > VS \div 1000000000
            /\ InLeg(Crossing(pA, vA, pB, vB), duration)
    THEN Crossing(pA, vA, pB, vB)
    ELSE None

\* ------------------------------------------------------------ ROAPhaseAgent
NaN == "nan"

\* The fields as __init__ sets them before it calls engage_phase_drive.
Fresh(start_pos) ==
    [origin |-> start_pos, pos |-> start_pos, cycle |-> 0, target |-> 0,
     duration |-> 0, velocity |-> 0, timer |-> 0, current_search_radius |-> 0]

\* Mutant: the radius is taken from the cycle counter after its increment.
SearchRadiusNext(cycle) == SCALE * 2 ^ (cycle + 1)

\* Mutant: the radius does not grow.
SearchRadiusFixed(cycle) == SCALE

\* self.current_search_radius = 1.0 * (2 ** self.cycle)
SearchRadius(cycle) == SCALE * 2 ^ cycle

\* self.target = self.origin + direction * self.current_search_radius
Target(origin, direction, radius) == origin + direction * radius

\* self.velocity = (self.target - self.pos) / self.duration
Velocity(delta, duration) ==
    IF duration = 0 THEN NaN ELSE (delta * VS) \div duration

engage_phase_drive(a, direction) ==
    LET radius == SearchRadius(a.cycle)
        target == Target(a.origin, direction, radius)
        duration == Abs(target - a.pos)
    IN  [a EXCEPT !.current_search_radius = radius,
                  !.target = target,
                  !.duration = duration,
                  !.velocity = Velocity(target - a.pos, duration),
                  !.timer = 0,
                  !.cycle = a.cycle + 1]

\* ROAPhaseAgent(start_pos)
NewAgent(start_pos, direction) == engage_phase_drive(Fresh(start_pos), direction)

Directions == {1, -1}

\* ------------------------------------------------------- np.random.choice
\* The module-level random stream.  An empty pat is an unseeded stream: a draw
\* returns either direction.  A non-empty pat is a seeded stream: the draws
\* are pat[1], pat[2], ... in call order, repeating.
FreeStream == [pat |-> <<>>, idx |-> 1]

SeededStreams == { [pat |-> p, idx |-> 1] : p \in [1 .. PatLen -> Directions] }

\* What direction = np.random.choice([1, -1]) may return.
Choice(r) == IF r.pat = <<>> THEN Directions ELSE {r.pat[r.idx]}

\* The stream after one draw.
Drawn(r) ==
    IF r.pat = <<>> THEN r ELSE [r EXCEPT !.idx = (r.idx % Len(r.pat)) + 1]

\* ------------------------------------------- simulate_v31_final_completion
\* agent.pos += agent.velocity * dt; agent.timer += dt
Advance(a, dt) ==
    [a EXCEPT !.pos = a.pos + (a.velocity * dt) \div VS,
              !.timer = a.timer + dt]

\* Mutant: the leg counts as done only once the timer has overshot.
LegOvershot(a) == a.timer > a.duration

\* abs(agent.duration - agent.timer) < 1e-9
LegDone(a) == BelowTol(a.duration - a.timer)

\* Mutant: the step runs to the later of the two leg ends.
StepDtMax == Max(agent_A.duration - agent_A.timer, agent_B.duration - agent_B.timer)

\* dt = min(rem_A, rem_B)
StepDt == Min(agent_A.duration - agent_A.timer, agent_B.duration - agent_B.timer)

\* The values the solver may return in this iteration (one per pair of
\* intensities; equal arguments give equal intensities).
Hits ==
    { solve_roa_phase_locked_physics(
          global_t, StepDt, agent_A.pos, agent_A.velocity,
          agent_B.pos, agent_B.velocity, p[1], p[2],
          Max(agent_A.current_search_radius, agent_B.current_search_radius)) :
        p \in { q \in Intensities(global_t, agent_A.cycle)
                        \X Intensities(global_t, agent_B.cycle) :
                  agent_A.cycle = agent_B.cycle => q[1] = q[2] } }

\* args holds the arguments of a direct call of the solver (SolverSpec), and
\* the two intensities that call computed; the driver leaves it alone.
NoArgs == [t_now |-> 0, duration |-> 0, pA |-> 0, vA |-> 0, pB |-> 0, vB |-> 0,
           idxA |-> 0, idxB |-> 0, current_radius |-> 0,
           intensity_A |-> 0, intensity_B |-> 0]

\* for _ in range(trials): two agents are constructed, global_t = 0.0
BeginTrial ==
    /\ pc = "for"
    /\ trial < trials
    /\ \E dA \in Choice(rng) : \E dB \in Choice(Drawn(rng)) :
          /\ agent_A' = NewAgent(0, dA)
          /\ agent_B' = NewAgent(dist, dB)
    /\ rng' = Drawn(Drawn(rng))
    /\ global_t' = 0
    /\ met' = FALSE
    /\ hit' = None
    /\ calls' = [A |-> 1, B |-> 1]
    /\ pc' = "while"
    /\ UNCHANGED <<trials, dist, trial, meeting_times, result, args>>

\* One iteration of the while loop in which the solver reports a meeting.
StepMeet ==
    /\ pc = "while"
    /\ global_t < Horizon
    /\ \E h \in Hits :
          /\ h.some
          /\ hit' = h
          /\ meeting_times' = Append(meeting_times, AddTime(global_t, h))
    /\ met' = TRUE
    /\ trial' = trial + 1
    /\ pc' = "for"
    /\ UNCHANGED <<trials, dist, agent_A, agent_B, global_t, result, rng,
                   calls, args>>

\* One iteration of the while loop in which the solver returns None: both
\* agents advance by dt, then A and B (in this order) start their next leg if
\* their timer has reached their duration.
StepAdvance ==
    /\ pc = "while"
    /\ global_t < Horizon
    /\ None \in Hits
    /\ hit' = None
    /\ global_t' = global_t + StepDt
    /\ LET a == Advance(agent_A, StepDt)
           b == Advance(agent_B, StepDt)
           r == IF LegDone(a) THEN Drawn(rng) ELSE rng
       IN  /\ IF LegDone(a)
              THEN \E d \in Choice(rng) : agent_A' = engage_phase_drive(a, d)
              ELSE agent_A' = a
           /\ IF LegDone(b)
              THEN \E d \in Choice(r) : agent_B' = engage_phase_drive(b, d)
              ELSE agent_B' = b
           /\ rng' = IF LegDone(b) THEN Drawn(r) ELSE r
           /\ calls' = [A |-> calls.A + (IF LegDone(a) THEN 1 ELSE 0),
                        B |-> calls.B + (IF LegDone(b) THEN 1 ELSE 0)]
    /\ UNCHANGED <<trials, dist, trial, meeting_times, met, pc, result, args>>

\* Mutant: the loop is left before the horizon.
TimeoutEarly ==
    /\ pc = "while"
    /\ global_t > 0
    /\ meeting_times' = IF met THEN meeting_times
                        ELSE Append(meeting_times, Frac(global_t, 1))
    /\ trial' = trial + 1
    /\ pc' = "for"
    /\ UNCHANGED <<trials, dist, agent_A, agent_B, global_t, met, hit, result,
                   rng, calls, args>>

\* The while condition fails: if not met: meeting_times.append(global_t)
Timeout ==
    /\ pc = "while"
    /\ ~(global_t < Horizon)
    /\ meeting_times' = IF met THEN meeting_times
                        ELSE Append(meeting_times, Frac(global_t, 1))
    /\ trial' = trial + 1
    /\ pc' = "for"
    /\ UNCHANGED <<trials, dist, agent_A, agent_B, global_t, met, hit, result,
                   rng, calls, args>>

\* return np.mean(meeting_times)
Return ==
    /\ pc = "for"
    /\ trial = trials
    /\ result' = Mean(meeting_times)
    /\ pc' = "done"
    /\ UNCHANGED <<trials, dist, trial, meeting_times, agent_A, agent_B,
                   global_t, met, hit, rng, calls, args>>

Next == BeginTrial \/ StepMeet \/ StepAdvance \/ Timeout \/ Return

\* Initial separations of the runs with an unseeded stream (SCALE units):
\* 0, 5e-5, 2 (the default), 2.5, 3, 6.
Dists == {0, 1, 2 * SCALE, 5 * (SCALE \div 2), 3 * SCALE, 6 * SCALE}

\* Initial separations of the runs with a seeded stream: 100, and 7200, from
\* which the agents cannot meet within the horizon.
FarDist == 7200 * SCALE

FarDists == {100 * SCALE, FarDist}

Init ==
    /\ trials \in 1 .. MaxTrials
    /\ \/ dist \in Dists /\ rng = FreeStream
       \/ dist \in FarDists /\ rng \in SeededStreams
    /\ trial = 0
    /\ meeting_times = <<>>
    /\ agent_A = Fresh(0)
    /\ agent_B = Fresh(0)
    /\ global_t = 0
    /\ met = FALSE
    /\ hit = None
    /\ pc = "for"
    /\ result = None
    /\ calls = [A |-> 0, B |-> 0]
    /\ args = NoArgs

Spec == Init /\ [][Next]_vars

\* The loop has no suspension point: an enabled step is taken.  The runs of
\* this specification are those of Spec with a seeded stream, and those with
\* an unseeded stream from the separations 0, 2 and 2.5.
FairInit ==
    /\ Init
    /\ rng = FreeStream => dist \in {0, 2 * SCALE, 5 * (SCALE \div 2)}

FairSpec == FairInit /\ [][Next]_vars /\ WF_vars(Next)

\* ------------------------------------------------ the solver, called alone
\* Arguments of a direct call: times 0 and 1; durations 0, 0.0005, 0.001,
\* 1, 3; positions 0, 5e-5, 1e-4, 1, 3; velocities -1, 0, 0.5, 1; cycle
\* indices 0, 1; radii 0, 1, 2.
ArgSet ==
    [t_now : {0, SCALE},
     duration : {0, SCALE \div 2000, SCALE \div 1000, SCALE, 3 * SCALE},
     pA : {0, 1},
     vA : {-VS, VS \div 2, VS},
     pB : {0, 2, SCALE, 3 * SCALE},
     vB : {-VS, 0, VS},
     idxA : {0, 1},
     idxB : {0, 1},
     current_radius : {0, SCALE, 2 * SCALE},
     intensity_A : {0},
     intensity_B : {0}]

SolverInit ==
    /\ args \in ArgSet
    /\ pc = "call"
    /\ hit = None
    /\ trials = 1
    /\ dist = 0
    /\ rng = FreeStream
    /\ trial = 0
    /\ meeting_times = <<>>
    /\ agent_A = Fresh(0)
    /\ agent_B = Fresh(0)
    /\ global_t = 0
    /\ met = FALSE
    /\ result = None
    /\ calls = [A |-> 0, B |-> 0]

\* hit = solve_roa_phase_locked_physics(args...)
Solve ==
    /\ pc = "call"
    /\ \E p \in { q \in Intensities(args.t_now, args.idxA)
                          \X Intensities(args.t_now, args.idxB) :
                    args.idxA = args.idxB => q[1] = q[2] } :
          /\ args' = [args EXCEPT !.intensity_A = p[1], !.intensity_B = p[2]]
          /\ hit' = solve_roa_phase_locked_physics(
                        args.t_now, args.duration, args.pA, args.vA,
                        args.pB, args.vB, p[1], p[2], args.current_radius)
    /\ pc' = "returned"
    /\ UNCHANGED <<trials, dist, trial, meeting_times, agent_A, agent_B,
                   global_t, met, result, rng, calls>>

SolverNext == Solve

SolverSpec == SolverInit /\ [][SolverNext]_vars

\* =========================================================== properties
Returned == pc = "returned"

RelPos == Abs(args.pA - args.pB)

\* The returned offset lies in [0, args.duration].
HitInLeg == 0 <= hit.num /\ hit.num <= args.duration * hit.den

HitIs(n) == hit.some /\ hit.num = n /\ hit.den = 1

\* C2 as stated: every value the solver returns lies within [0, duration].
C2_Original == (Returned /\ hit.some) => HitInLeg

\* C2 amended: the solver returns None, 0.0 (coincidence), 0.001 (field) or an
\* offset within [0, duration]; so a returned offset lies within
\* [0, duration] whenever duration >= 0.001, but not always when it is smaller.
C2_Amended ==
    (Returned /\ hit.some) =>
        /\ HitIs(0) \/ HitIs(SCALE \div 1000) \/ HitInLeg
        /\ args.duration >= SCALE \div 1000 => HitInLeg

\* The field branch returned 0.001 for a leg shorter than 0.001.
C2_Witness ==
    /\ Returned
    /\ HitIs(SCALE \div 1000)
    /\ 0 <= args.duration
    /\ args.duration < SCALE \div 1000

\* Both early branches failed in the call recorded in args.
ReachedFallback ==
    /\ Returned
    /\ RelPos >= SCALE \div 10000
    /\ 4 * IUnit * RelPos
         >= 5 * args.current_radius * (args.intensity_A + args.intensity_B + IUnit)

\* The unique time N/D at which the two lines cross (velocities differ).
CrossN == (args.pB - args.pA) * VS
CrossD == args.vA - args.vB

CrossesWithinLeg ==
    /\ CrossD # 0
    /\ CrossN * CrossD >= 0
    /\ IF CrossD > 0 THEN CrossN <= args.duration * CrossD
                     ELSE CrossN >= args.duration * CrossD

\* C7: a value returned by the classical fallback lies in [0, duration] and is
\* a crossing time of the two trajectories (pA + vA*dt = pB + vB*dt); when the
\* velocities are equal or the crossing lies outside [0, duration], the
\* fallback returns None.
C7_Fallback ==
    ReachedFallback =>
        /\ hit.some =>
              /\ HitInLeg
              /\ args.pA * VS * hit.den + args.vA * hit.num
                   = args.pB * VS * hit.den + args.vB * hit.num
        /\ hit.some <=> CrossesWithinLeg

\* The fallback returned a crossing time that is not a whole number of units.
C7_Witness ==
    /\ ReachedFallback
    /\ hit.some
    /\ hit.den > 1
    /\ args.vA # -args.vB

\* C9: intensities are never negative, so field_strength >= 0.5, and a call
\* with 1e-4 <= |pA - pB| < 1.25 * current_radius returns exactly 0.001.
C9_FieldFloor ==
    Returned =>
        /\ args.intensity_A >= 0
        /\ args.intensity_B >= 0
        /\ (RelPos >= SCALE \div 10000 /\ 4 * RelPos < 5 * args.current_radius)
              => HitIs(SCALE \div 1000)

\* The field branch fired at its floor: both intensities 0, the separation
\* between the radius and 1.25 times the radius.
C9_Witness ==
    /\ Returned
    /\ args.intensity_A = 0
    /\ args.intensity_B = 0
    /\ RelPos >= args.current_radius
    /\ 4 * RelPos < 5 * args.current_radius
    /\ HitIs(SCALE \div 1000)

\* ---------------------------------------------------------------- driver
Agents == {agent_A, agent_B}

\* A trial has just ended (or the run has) and its last trial timed out.
TimedOut == pc \in {"for", "done"} /\ trial >= 1 /\ ~met

Last(q) == q[Len(q)]

\* C1 as stated: a trial that times out records exactly 1000.0.
C1_Original == TimedOut => Last(meeting_times) = Frac(Horizon, 1)

\* C1 amended: a trial that times out records the value global_t has when the
\* while loop exits, which is at least 1000.0 and may be larger.
C1_Amended ==
    TimedOut =>
        /\ Last(meeting_times) = Frac(global_t, 1)
        /\ global_t >= Horizon
        /\ Len(meeting_times) = trial

\* A timed-out trial recorded more than 1000.0.
C1_Witness == TimedOut /\ Last(meeting_times).num > Horizon

\* C3 as stated: after n >= 1 calls of engage_phase_drive the radius is 2^n.
C3_Original ==
    /\ calls.A >= 1 => agent_A.current_search_radius = SCALE * 2 ^ calls.A
    /\ calls.B >= 1 => agent_B.current_search_radius = SCALE * 2 ^ calls.B

\* C3 amended: after n >= 1 calls of engage_phase_drive (the constructor's
\* included) the radius is 2^(n-1), and cycle is n.
C3_Amended ==
    /\ calls.A >= 1 =>
          /\ agent_A.current_search_radius = SCALE * 2 ^ (calls.A - 1)
          /\ agent_A.cycle = calls.A
    /\ calls.B >= 1 =>
          /\ agent_B.current_search_radius = SCALE * 2 ^ (calls.B - 1)
          /\ agent_B.cycle = calls.B

\* Both agents have planned several legs, one more than the other.
C3_Witness == calls.A >= 4 /\ calls.B >= 3 /\ calls.A # calls.B

\* C4: with initial separation 0.0 the first solver call of every trial
\* returns 0.0, whatever the draws and intensities (as it does whenever the
\* agents are within 1e-4 of each other); no agent is advanced, every trial
\* records 0.0 and the mean is 0.0.
C4_ZeroSeparation ==
    /\ (pc = "while" /\ Abs(agent_A.pos - agent_B.pos) < SCALE \div 10000)
          => Hits = {Frac(0, 1)}
    /\ dist = 0 =>
          /\ \A i \in 1 .. Len(meeting_times) : meeting_times[i] = Frac(0, 1)
          /\ global_t = 0
          /\ calls.A <= 1 /\ calls.B <= 1
          /\ agent_A.pos = 0 /\ agent_B.pos = 0
          /\ pc = "for" => Len(meeting_times) = trial
          /\ (pc = "for" /\ trial >= 1) => (met /\ hit = Frac(0, 1))
          /\ pc = "done" => result = Frac(0, 1)

\* A run of at least two trials at separation 0.0 has returned.
C4_Witness ==
    /\ dist = 0
    /\ pc = "done"
    /\ trials >= 2
    /\ Len(meeting_times) = trials
    /\ result = Frac(0, 1)

\* C5: timer is always within [0, duration], and at the start of every loop
\* iteration it is strictly less than duration (an agent whose timer reached
\* its duration has re-planned in the same iteration).
C5_TimerInLeg ==
    \A a \in Agents :
        /\ 0 <= a.timer
        /\ a.timer <= a.duration
        /\ pc = "while" => a.timer < a.duration

\* An iteration starts with one agent in the middle of a leg and the other
\* at the start of a new one.
C5_Witness ==
    /\ pc = "while"
    /\ agent_A.timer > 0
    /\ agent_B.timer = 0
    /\ calls.B >= 2

\* C6: every engage_phase_drive call plans a target different from the
\* current position: duration > 0, no division by zero, velocity +1 or -1.
C6_LegNonEmpty ==
    \A a \in Agents :
        a.cycle >= 1 =>
            /\ a.duration > 0
            /\ a.velocity \in {VS, -VS}
            /\ a.duration = Abs(a.target - (a.pos - (a.velocity * a.timer) \div VS))
            /\ a.timer = 0 => a.target # a.pos

\* An agent has re-planned at a leg end and reverses.
C6_Witness ==
    /\ pc = "while"
    /\ calls.A >= 3
    /\ agent_A.timer = 0
    /\ agent_A.velocity = -VS
    /\ agent_A.pos > agent_A.origin

\* One step of a trial: global_t does not decrease, and an iteration that
\* stays in the loop advances it by dt = min(rem_A, rem_B) > 0 and ends the
\* leg of at least one agent.
TrialStep ==
    pc = "while" =>
        /\ global_t' >= global_t
        /\ pc' = "while" =>
              /\ global_t' > global_t
              /\ global_t' - global_t = Min(agent_A.duration - agent_A.timer,
                                            agent_B.duration - agent_B.timer)
              /\ \/ agent_A'.cycle = agent_A.cycle + 1
                 \/ agent_B'.cycle = agent_B.cycle + 1

\* A trial that is over recorded a meeting or reached the horizon.
TrialEnded == (pc = "for" /\ trial >= 1) => (met \/ global_t >= Horizon)

\* C8: global_t never decreases within a trial, every iteration without a
\* meeting advances it by dt > 0 and completes a leg, and every trial ends,
\* by a recorded meeting or by global_t reaching at least 1000.0.
C8_Terminates ==
    /\ [][TrialStep]_vars
    /\ []TrialEnded
    /\ (pc = "while") ~> (pc = "for")
    /\ <>(pc = "done")

\* A run of two trials has returned; its last trial ended at the horizon
\* after at least ten legs of each agent.
C8_Witness ==
    /\ pc = "done"
    /\ trials >= 2
    /\ ~met
    /\ global_t >= Horizon
    /\ calls.A >= 10
    /\ calls.B >= 10

\* C10: with a positive initial separation, at the start of every loop
\* iteration agent A is strictly left of agent B.
C10_NoPassing ==
    (pc = "while" /\ dist > 0) => agent_A.pos < agent_B.pos

\* After at least one step without a meeting, the agents moved towards each
\* other and the classical branch reported their crossing.
C10_Witness ==
    /\ pc = "for"
    /\ met
    /\ global_t > 0
    /\ hit.some
    /\ hit.num > SCALE \div 1000
    /\ agent_A.velocity = VS
    /\ agent_B.velocity = -VS

====
